---- MODULE Spec2Model ----
(***************************************************************************)
(* Model of src/server.js (the later revision, lines 344-683): a markdown  *)
(* documentation server with live reload.                                  *)
(*                                                                         *)
(* Strings are sequences of one-character strings, so that the string      *)
(* operations of the code (startsWith, includes, endsWith, split, join,    *)
(* replace) are computed character by character.  File names are drawn     *)
(* from an alphabet without '"' and '\', for which the template            *)
(* interpolation of line 536 yields the string it is given.                *)
(*                                                                         *)
(* Specifications:                                                         *)
(*   Spec       one viewer, the watcher and the live-reload channel; a     *)
(*              page load runs the request handler without interruption    *)
(*   FanSpec    NumViewers viewers on a small tree                         *)
(*   OrderSpec  two viewers, several events in flight                      *)
(*   LiveSpec   Spec with the browser's event loop being fair              *)
(*   ServeSpec  the process from its start, and the request handler await  *)
(*              by await while the tree changes                            *)
(*   StartSpec  the process from its start, with the watcher, the channel  *)
(*              and one viewer                                             *)
(***************************************************************************)
EXTENDS Integers, Sequences, FiniteSets, TLC

(***************************************************************************)
(* Bounds of the model.                                                    *)
(***************************************************************************)
NumViewers == 2
MaxInFlight == 1
MaxQueued == 2

(***************************************************************************)
(* String operations (JavaScript String.prototype).                        *)
(***************************************************************************)
StartsWith(s, p) ==
    /\ Len(p) <= Len(s)
    /\ SubSeq(s, 1, Len(p)) = p

EndsWith(s, p) ==
    /\ Len(p) <= Len(s)
    /\ SubSeq(s, Len(s) - Len(p) + 1, Len(s)) = p

Includes(s, p) ==
    \E i \in 1..(Len(s) - Len(p) + 1) : SubSeq(s, i, i + Len(p) - 1) = p

\* s.split(c) for a one-character separator c: the pieces between the
\* separators, empty pieces included.
RECURSIVE SplitFrom(_, _, _, _)
SplitFrom(s, c, i, cur) ==
    IF i > Len(s) THEN <<cur>>
    ELSE IF s[i] = c THEN <<cur>> \o SplitFrom(s, c, i + 1, <<>>)
    ELSE SplitFrom(s, c, i + 1, Append(cur, s[i]))

Split(s, c) == SplitFrom(s, c, 1, <<>>)

\* parts.join(c)
RECURSIVE Join(_, _)
Join(parts, c) ==
    IF parts = <<>> THEN <<>>
    ELSE IF Len(parts) = 1 THEN parts[1]
    ELSE parts[1] \o <<c>> \o Join(Tail(parts), c)

\* s.replace(/\/$/, ''): one trailing slash removed
StripTrailingSlash(s) ==
    IF EndsWith(s, <<"/">>) THEN SubSeq(s, 1, Len(s) - 1) ELSE s

\* The non-empty pieces of a path, "." pieces dropped.
Segments(s) == SelectSeq(Split(s, "/"), LAMBDA x : x # <<>> /\ x # <<".">>)

(***************************************************************************)
(* Names and paths of the model's file system.                             *)
(***************************************************************************)
DotMd == <<".", "m", "d">>
DotDot == <<".", ".">>
NameG == <<"g">>
NameGMd == NameG \o DotMd

\* The served root, an absolute path.
DOCS_DIR == <<"/", "r">>

PathG == NameG
PathGMd == NameGMd
PathG_GMd == Join(<<NameG, NameGMd>>, "/")
PathG_G == Join(<<NameG, NameG>>, "/")
PathG_G_GMd == Join(<<NameG, NameG, NameGMd>>, "/")
PathGMd_GMd == Join(<<NameGMd, NameGMd>>, "/")

\* The paths (relative to the served root) that may exist, and the kinds each
\* may have.  "g.md" may be a markdown file or a directory named "g.md".
AllowedKinds ==
    (PathG :> {"dir"}) @@ (PathGMd :> {"file", "dir"}) @@
    (PathG_GMd :> {"file"}) @@ (PathG_G :> {"dir"}) @@
    (PathG_G_GMd :> {"file"}) @@ (PathGMd_GMd :> {"file"})

Universe == DOMAIN AllowedKinds

VARIABLES fs, pending, proc, clients, readyState, inbox, page, view, viewKind, seen,
          boot, req

vars == <<fs, pending, proc, clients, readyState, inbox, page, view, viewKind, seen,
          boot, req>>

\* The state of the startup and of the request being handled.
serveVars == <<boot, req>>

\* The state of the watcher, of the live-reload channel and of the viewers.
channelVars == <<pending, clients, readyState, inbox, page, view, viewKind, seen>>

(***************************************************************************)
(* Node's path module (POSIX).                                             *)
(***************************************************************************)
\* The segments of a path with ".." resolved against the segments before it.
RECURSIVE ResolveDots(_, _)
ResolveDots(segs, acc) ==
    IF segs = <<>> THEN acc
    ELSE IF Head(segs) = DotDot
         THEN ResolveDots(Tail(segs),
                          IF acc = <<>> THEN acc ELSE SubSeq(acc, 1, Len(acc) - 1))
         ELSE ResolveDots(Tail(segs), Append(acc, Head(segs)))

\* path.join(a, b) for an absolute a: the two joined by "/" and normalized;
\* a trailing slash is kept.
PathJoin(a, b) ==
    LET s == a \o <<"/">> \o b
        segs == ResolveDots(Segments(s), <<>>)
    IN  IF segs = <<>> THEN <<"/">>
        ELSE <<"/">> \o Join(segs, "/")
             \o (IF EndsWith(s, <<"/">>) THEN <<"/">> ELSE <<>>)

\* The longest common prefix of two sequences of segments.
RECURSIVE CommonLen(_, _)
CommonLen(a, b) ==
    IF a = <<>> \/ b = <<>> \/ Head(a) # Head(b) THEN 0
    ELSE 1 + CommonLen(Tail(a), Tail(b))

\* The view identifier with a slip: filePath.slice(DOCS_DIR.length + 1), which
\* keeps a trailing slash.
PathRelativeBySlice(from, to) == SubSeq(to, Len(from) + 2, Len(to))

\* path.relative(from, to).split(path.sep).join('/')
PathRelative(from, to) ==
    LET f == ResolveDots(Segments(from), <<>>)
        t == ResolveDots(Segments(to), <<>>)
        n == CommonLen(f, t)
        ups == [i \in 1..(Len(f) - n) |-> DotDot]
    IN  Join(Split(Join(ups \o SubSeq(t, n + 1, Len(t)), "/"), "/"), "/")

\* path.basename(p)
PathBasename(p) ==
    LET segs == Segments(p) IN IF segs = <<>> THEN <<>> ELSE segs[Len(segs)]

(***************************************************************************)
(* The file system under the served root.                                  *)
(***************************************************************************)
\* The parent directory of a relative path ("" for a top-level path).
ParentOf(rel) ==
    LET segs == Split(rel, "/") IN Join(SubSeq(segs, 1, Len(segs) - 1), "/")

DirExists(fsys, rel) == rel = <<>> \/ (rel \in DOMAIN fsys /\ fsys[rel] = "dir")

ChildrenOf(fsys, rel) == {c \in DOMAIN fsys : ParentOf(c) = rel}

\* fs.promises.stat(filePath) as getStats wraps it: "none" for null.
getStats(fsys, filePath) ==
    LET segs == Segments(filePath)
        rootSegs == Segments(DOCS_DIR)
        rel == Join(SubSeq(segs, Len(rootSegs) + 1, Len(segs)), "/")
    IN  IF ~StartsWith(segs, rootSegs) THEN "none"
        ELSE IF rel = <<>> THEN "dir"
        ELSE IF rel \notin DOMAIN fsys THEN "none"
        ELSE IF fsys[rel] # "dir" /\ EndsWith(filePath, <<"/">>) THEN "none"
        ELSE fsys[rel]

(***************************************************************************)
(* The request handler, app.get(/.*/), as one read of the file system.     *)
(***************************************************************************)
ImageExtensions == {<<".", "p", "n", "g">>}

\* The image test with a slip: the MIME type is not looked at.
MimeNotChecked(filePath) == TRUE

\* mime.lookup(filePath) starts with 'image/'
MimeIsImage(filePath) == \E e \in ImageExtensions : EndsWith(filePath, e)

\* The response to GET requestPath (the decoded path): its status, what it
\* carries, and for an HTML page the view identifier handed to generateHtml
\* as currentPath.
Respond(status, kind, viewId) == [status |-> status, kind |-> kind, view |-> viewId]

HandleGet(fsys, requestPath) ==
    IF Includes(requestPath, DotDot) THEN Respond(403, "text", <<>>)
    ELSE
      LET filePath0 == PathJoin(DOCS_DIR, requestPath)
          stats0 == getStats(fsys, filePath0)
          tryMd == stats0 = "none" /\ ~EndsWith(filePath0, DotMd)
          mdPath == filePath0 \o DotMd
          mdStats == getStats(fsys, mdPath)
          useMd == tryMd /\ mdStats # "none"
          filePath == IF useMd THEN mdPath ELSE filePath0
          stats == IF useMd THEN mdStats ELSE stats0
      IN  IF stats = "none" THEN Respond(404, "text", <<>>)
          ELSE IF stats = "dir"
               THEN Respond(200, "listing", PathRelative(DOCS_DIR, filePath))
          ELSE IF EndsWith(filePath, DotMd)
               THEN Respond(200, "markdown", PathRelative(DOCS_DIR, filePath))
          ELSE IF MimeIsImage(filePath) THEN Respond(200, "image", <<>>)
          ELSE Respond(403, "text", <<>>)

\* The request paths a viewer asks for, given the paths that may exist: each
\* of them, the root, and the top-level ones with a trailing slash.
RequestPaths(paths) ==
    {<<"/">>} \cup {<<"/">> \o p : p \in paths}
    \cup {<<"/">> \o p \o <<"/">> : p \in paths \cap {PathG, PathGMd}}

(***************************************************************************)
(* The view-match engine: socket.onmessage of the page's script.           *)
(***************************************************************************)
UpdateMsg(relativePath, event) ==
    [type |-> "update", path |-> relativePath, event |-> event]

\* Variants of the engine, each with one plausible slip, used to show that
\* the properties below depend on the engine's code.
\* At the root only top-level paths reload (the earlier revision's rule).
MatchRootTopLevelOnly(V, data) ==
    LET current == StripTrailingSlash(V)
    IN  IF data.type # "update" THEN FALSE
        ELSE IF data.path = current THEN TRUE
        ELSE IF current = <<>> THEN ~Includes(data.path, <<"/">>)
        ELSE IF ~Includes(current, DotMd)
             THEN StartsWith(data.path, current \o <<"/">>)
        ELSE FALSE

\* The exact-match test left out.
MatchNoExact(V, data) ==
    LET current == StripTrailingSlash(V)
    IN  IF data.type # "update" THEN FALSE
        ELSE IF ~Includes(current, DotMd)
             THEN LET prefix == IF current # <<>> THEN current \o <<"/">> ELSE <<>>
                  IN  StartsWith(data.path, prefix)
        ELSE FALSE

\* The '.md' test left out: every view gets the containment rule.
MatchNoMdGuard(V, data) ==
    LET current == StripTrailingSlash(V)
        prefix == IF current # <<>> THEN current \o <<"/">> ELSE <<>>
    IN  IF data.type # "update" THEN FALSE
        ELSE IF data.path = current THEN TRUE
        ELSE StartsWith(data.path, prefix)

\* The prefix without its '/'.
MatchPrefixNoSlash(V, data) ==
    LET current == StripTrailingSlash(V)
    IN  IF data.type # "update" THEN FALSE
        ELSE IF data.path = current THEN TRUE
        ELSE IF ~Includes(current, DotMd) THEN StartsWith(data.path, current)
        ELSE FALSE

\* The decision made to depend on the event kind: a removal never reloads.
MatchUnlessUnlink(V, data) ==
    LET current == StripTrailingSlash(V)
    IN  IF data.type # "update" \/ data.event = "unlink" THEN FALSE
        ELSE IF data.path = current THEN TRUE
        ELSE IF ~Includes(current, DotMd)
             THEN LET prefix == IF current # <<>> THEN current \o <<"/">> ELSE <<>>
                  IN  StartsWith(data.path, prefix)
        ELSE FALSE

\* Whether the page whose currentViewPath is V reloads on message data.
Match(V, data) ==
    LET current == StripTrailingSlash(V)
    IN  IF data.type # "update" THEN FALSE
        ELSE IF data.path = current THEN TRUE
        ELSE IF ~Includes(current, DotMd)
             THEN LET prefix == IF current # <<>> THEN current \o <<"/">> ELSE <<>>
                  IN  StartsWith(data.path, prefix)
        ELSE FALSE

(***************************************************************************)
(* The watcher callback and the fan-out over wss.clients.                  *)
(***************************************************************************)
\* The earlier revision's condition: directory events are not passed on.
BroadcastEventsFilesOnly == {"change", "add", "unlink"}

\* The events the listener passes on (the condition of lines 400-406).
BroadcastEvents == {"change", "add", "unlink", "addDir", "unlinkDir"}

\* The fan-out with a slip: the iteration ends at the first client that is
\* not OPEN instead of skipping it.
RECURSIVE FanOutStopAtNotOpen(_, _, _, _)
FanOutStopAtNotOpen(cs, rs, box, msg) ==
    IF cs = <<>> THEN box
    ELSE IF rs[Head(cs)] # "OPEN" THEN box
    ELSE FanOutStopAtNotOpen(Tail(cs), rs,
                             [box EXCEPT ![Head(cs)] = Append(@, msg)], msg)

\* The fan-out with a slip: the readyState test left out, so that a message
\* is handed to a socket that is not OPEN and waits there.
RECURSIVE FanOutToAll(_, _, _, _)
FanOutToAll(cs, rs, box, msg) ==
    IF cs = <<>> THEN box
    ELSE FanOutToAll(Tail(cs), rs, [box EXCEPT ![Head(cs)] = Append(@, msg)], msg)

\* wss.clients.forEach(client => { if (client.readyState === OPEN) client.send(..) })
\* over the clients in insertion order.
RECURSIVE FanOut(_, _, _, _)
FanOut(cs, rs, box, msg) ==
    IF cs = <<>> THEN box
    ELSE LET c == Head(cs)
             box1 == IF rs[c] = "OPEN"
                     THEN [box EXCEPT ![c] = Append(@, msg)]
                     ELSE box
         IN  FanOut(Tail(cs), rs, box1, msg)

\* What the callback does with one event of chokidar's 'all' stream.
Broadcast(cs, rs, box, event, filePath) ==
    IF event \in BroadcastEvents
    THEN FanOut(cs, rs, box, UpdateMsg(PathRelative(DOCS_DIR, filePath), event))
    ELSE box

(***************************************************************************)
(* Startup: the command line and the check of the served root.             *)
(***************************************************************************)
DirFlags == {<<"-", "d">>, <<"-", "-", "d", "i", "r">>}
PortFlags == {<<"-", "p">>, <<"-", "-", "p", "o", "r", "t">>}
HostFlags == {<<"-", "h">>, <<"-", "-", "h", "o", "s", "t">>}

\* The loop over process.argv.slice(2), from index i on, dirArg being the
\* directory argument found so far ("" for null or undefined, both falsy).
RECURSIVE ParseDirArg(_, _, _)
ParseDirArg(args, i, dirArg) ==
    IF i > Len(args) THEN dirArg
    ELSE LET arg == args[i]
         IN  IF arg \in PortFlags \/ arg \in HostFlags
             THEN ParseDirArg(args, i + 2, dirArg)
             ELSE IF arg \in DirFlags
             THEN ParseDirArg(args, i + 2,
                              IF i + 1 <= Len(args) THEN args[i + 1] ELSE <<>>)
             ELSE IF ~StartsWith(arg, <<"-">>) /\ dirArg = <<>>
             THEN ParseDirArg(args, i + 1, arg)
             ELSE ParseDirArg(args, i + 1, dirArg)

\* process.cwd() and __dirname of the run.
Cwd == <<"/">>
Dirname == <<"/", "a">>

\* dirArg ? path.resolve(dirArg) : path.join(__dirname, 'docs')
ResolveDocsDir(dirArg) ==
    IF dirArg # <<>> THEN PathJoin(Cwd, dirArg)
    ELSE PathJoin(Dirname, <<"d", "o", "c", "s">>)

\* !fs.existsSync(DOCS_DIR), disk being the directories that exist.
\* A variant that never finds the directory missing.
DirMissingNever(disk, dir) == FALSE

DirMissing(disk, dir) == dir \notin disk

\* The command lines of the model: up to two arguments.
ArgTokens == {<<"-", "d">>, <<"-", "-", "d", "i", "r">>, <<"-", "p">>, <<"r">>, <<"x">>}
ArgLists == {<<>>} \cup {<<a>> : a \in ArgTokens}
            \cup {<<a, b>> : a \in ArgTokens, b \in ArgTokens}

\* The directories that may exist when the process starts: the one the
\* argument "r" names and the bundled docs directory; "x" names none.
Disks == SUBSET {PathJoin(Cwd, <<"r">>), ResolveDocsDir(<<>>)}

\* boot.scan tells where the watcher's initial scan of the tree is: "off"
\* (no watcher yet), "scanning" or "ready".
\* The startup before its first step, and once the server listens.  From
\* then on the served root is written DOCS_DIR, whatever directory it is.
BootStart(args, disk) ==
    [pc |-> "args", args |-> args, disk |-> disk, docsDir |-> <<>>,
     exitCode |-> -1, wss |-> FALSE, watching |-> FALSE, scan |-> "off",
     listening |-> FALSE]

BootUp ==
    [pc |-> "up", args |-> <<>>, disk |-> {DOCS_DIR}, docsDir |-> DOCS_DIR,
     exitCode |-> -1, wss |-> TRUE, watching |-> TRUE, scan |-> "ready",
     listening |-> TRUE]

(***************************************************************************)
(* The request handler, app.get(/.*/), await by await.                     *)
(***************************************************************************)
\* decodeURIComponent(s): "%" and two hexadecimal digits stand for one
\* character; a "%" followed by anything else throws URIError.
URIError == <<"URIError">>

HexDigits == {"0", "1", "2", "3", "4", "5", "6", "7", "8", "9",
              "a", "b", "c", "d", "e", "f", "A", "B", "C", "D", "E", "F"}

\* The escapes that occur in the requests of the model.
EscapeTable == (<<"2", "e">> :> ".") @@ (<<"2", "f">> :> "/")

RECURSIVE DecodeFrom(_, _)
DecodeFrom(s, acc) ==
    IF s = <<>> THEN acc
    ELSE IF Head(s) # "%" THEN DecodeFrom(Tail(s), Append(acc, Head(s)))
    ELSE IF Len(s) < 3 \/ s[2] \notin HexDigits \/ s[3] \notin HexDigits
         THEN URIError
    ELSE DecodeFrom(SubSeq(s, 4, Len(s)), Append(acc, EscapeTable[<<s[2], s[3]>>]))

DecodeURIComponent(s) == DecodeFrom(s, <<>>)

\* The traversal test with a slip: only a path that begins with "/.." is
\* rejected.
IsTraversalLeadingOnly(requestPath) == StartsWith(requestPath, <<"/", ".", ".">>)

\* requestPath.includes('..')
IsTraversal(requestPath) == Includes(requestPath, DotDot)

\* The tree of the request handler's runs: "g" may be a directory, a regular
\* file or something that is neither (a FIFO, a socket, a device); "g.md" a
\* file or a directory; "g..md" and "g.png" files; "g/index.md" a file.
NameGDotDotMd == <<"g", ".", ".", "m", "d">>
NameGPng == <<"g", ".", "p", "n", "g">>
NameIndexMd == <<"i", "n", "d", "e", "x", ".", "m", "d">>
PathG_IndexMd == PathG \o <<"/">> \o NameIndexMd

ServeKinds ==
    (PathG :> {"dir", "file", "other"}) @@ (PathGMd :> {"file", "dir"}) @@
    (NameGDotDotMd :> {"file"}) @@ (NameGPng :> {"file"}) @@
    (PathG_IndexMd :> {"file"})

ServeUniverse == DOMAIN ServeKinds

\* The raw request paths (req.path) of the model.
ServeRequests ==
    {<<"/">>, <<"/">> \o PathG, <<"/">> \o PathG \o <<"/">>,
     <<"/">> \o PathGMd, <<"/">> \o NameGDotDotMd, <<"/">> \o NameGPng,
     <<"/">> \o DotDot \o <<"/">> \o PathGMd,
     <<"/">> \o PathG \o <<"/">> \o DotDot \o <<"/">> \o PathGMd,
     <<"/", "%", "2", "e", "%", "2", "e", "/">> \o PathGMd,
     <<"/", "%">>, <<"/", "/">>, <<"/", ".">>}

\* The request being handled:
\*   pc           where the handler is: "idle" (no request yet), the await it
\*                is suspended at ("stat", "statMd", "readdir", "statIndex",
\*                "readIndex", "readFile", "sendFile"), or "finished" (the
\*                handler has returned or thrown)
\*   raw          req.path
\*   requestPath  the decoded path, URIError when decoding threw
\*   filePath     the handler's filePath, NoTarget before path.join
\*   stats        what the stat of filePath gave: "none", "file", "dir", "other"
\*   io           the paths the handler has made a file-system call on
\*   status, kind, view, content
\*                the response: its status (0 before a response), what it
\*                carries, the view identifier of an HTML page, and the files
\*                whose content it carries
\*   files        what readdir gave: the name of each child and whether it is
\*                a directory
\*   entries      the href of each entry of a listing, the parent entry apart
\*   parent       whether a listing has the parent entry ".."
\*   sent         how many responses have been sent
\*   raced        whether the tree has changed since the request arrived
NoTarget == <<"-">>

IdleReq ==
    [pc |-> "idle", raw |-> <<>>, requestPath |-> <<>>, filePath |-> NoTarget,
     stats |-> "none", io |-> {}, status |-> 0, kind |-> "none", view |-> <<>>,
     content |-> {}, files |-> {}, entries |-> {}, parent |-> FALSE,
     sent |-> 0, raced |-> FALSE]

\* res.status(status).send(..) or res.send(..) or res.sendFile(..), and return.
Finish(r, status, kind, viewId, content) ==
    [r EXCEPT !.pc = "finished", !.status = status, !.kind = kind,
              !.view = viewId, !.content = content, !.sent = @ + 1]

\* fs.promises.readdir(dir, { withFileTypes: true }), dir relative to the root.
Readdir(fsys, rel) ==
    {[name |-> PathBasename(c), isDir |-> fsys[c] = "dir"] :
        c \in {c \in ChildrenOf(fsys, rel) : fsys[c] # "none"}}

\* The listing loop with a slip: every child is listed.
ListEntriesUnfiltered(files) ==
    {f.name \o (IF f.isDir THEN <<"/">> ELSE <<>>) : f \in files}

\* Lines 638-647: the href of each listed child.
ListEntries(files) ==
    {f.name \o (IF f.isDir THEN <<"/">> ELSE <<>>) :
        f \in {f \in files : f.isDir \/ EndsWith(f.name, DotMd)}}

\* Lines 634-636: requestPath !== '/'
ShowParent(requestPath) == requestPath # <<"/">>

\* Lines 632-656: the listing page of the directory filePath.
FinishListing(r, content) ==
    [Finish(r, 200, "listing", PathRelative(DOCS_DIR, r.filePath), content)
        EXCEPT !.entries = ListEntries(r.files),
               !.parent = ShowParent(r.requestPath)]

\* What becomes of a request whose async handler throws: the framework
\* answers 500 (a router that catches rejected handlers) or nothing is ever
\* sent (one that does not).
ThrowOutcomes == {"500", "none"}

Thrown(r, outcome) ==
    IF outcome = "500" THEN Finish(r, 500, "text", <<>>, {})
    ELSE [r EXCEPT !.pc = "finished"]

\* Lines 606-677 up to the next await, once filePath and stats are settled.
Dispatch(r) ==
    IF r.stats = "none" THEN Finish(r, 404, "text", <<>>, {})
    ELSE IF r.stats = "dir" THEN [r EXCEPT !.pc = "readdir"]
    ELSE IF r.stats = "file"
         THEN IF EndsWith(r.filePath, DotMd) THEN [r EXCEPT !.pc = "readFile"]
              ELSE IF MimeIsImage(r.filePath) THEN [r EXCEPT !.pc = "sendFile"]
              ELSE Finish(r, 403, "text", <<>>, {})
    ELSE [r EXCEPT !.pc = "finished"]

(***************************************************************************)
(* State.                                                                  *)
(*   fs          kind of each path of Universe: "none", "file" or "dir"    *)
(*   pending     events chokidar has detected and not yet passed to the    *)
(*               'all' listener: records [event, path] (path absolute)     *)
(*   proc        "running" or "crashed"                                    *)
(*   clients     wss.clients in insertion order                            *)
(*   readyState  server-side state of each viewer's socket: "NONE" (no     *)
(*               socket), "OPEN" or "CLOSING"                              *)
(*   inbox       messages sent to a viewer and not yet handled by it       *)
(*   page        what the viewer's tab is doing: "none" (no page with a    *)
(*               live-reload channel), "connecting" (page loaded, socket   *)
(*               not yet open), "live" or "reloading"                      *)
(*   view        currentViewPath of the page the viewer has loaded         *)
(*   viewKind    what that page renders: "listing" (a directory),          *)
(*               "markdown" (a file), "none" without a page                *)
(*   seen        data.path of the last message the page handled, NoPath    *)
(*               before the first one                                      *)
(***************************************************************************)
NoPath == <<"-">>

\* The tree served at startup: directory "g" holding the file "g/g.md".
InitialFs(paths) ==
    [p \in paths |-> IF p = PathG THEN "dir"
                     ELSE IF p = PathG_GMd THEN "file" ELSE "none"]

\* The state once the server listens: no viewer yet, nothing detected.
InitWith(viewers, paths) ==
    /\ fs = InitialFs(paths)
    /\ pending = <<>>
    /\ proc = "running"
    /\ clients = <<>>
    /\ readyState = [v \in viewers |-> "NONE"]
    /\ inbox = [v \in viewers |-> <<>>]
    /\ page = [v \in viewers |-> "none"]
    /\ view = [v \in viewers |-> <<>>]
    /\ viewKind = [v \in viewers |-> "none"]
    /\ seen = [v \in viewers |-> NoPath]
    /\ boot = BootUp
    /\ req = IdleReq

\* One viewer over the whole tree.
OneViewer == {1}
Init == InitWith(OneViewer, Universe)

\* NumViewers viewers over the tree "g", "g/g.md".
FanUniverse == {PathG, PathG_GMd}
FanInit == InitWith(1..NumViewers, FanUniverse)

Viewers == DOMAIN page

\* The events chokidar emits on 'all' for a mutation of the watched tree.
WatcherEvents == {"add", "change", "unlink", "addDir", "unlinkDir"}

\* A mutation of the served tree, which chokidar detects: the new kind of p.
MutationEffect(fsys, p, event) ==
    CASE event = "add" -> "file"
      [] event = "change" -> "file"
      [] event = "unlink" -> "none"
      [] event = "addDir" -> "dir"
      [] event = "unlinkDir" -> "none"

MutationPossible(fsys, p, event) ==
    CASE event = "add" ->
            fsys[p] = "none" /\ "file" \in AllowedKinds[p] /\ DirExists(fsys, ParentOf(p))
      [] event = "change" -> fsys[p] = "file"
      [] event = "unlink" -> fsys[p] = "file"
      [] event = "addDir" ->
            fsys[p] = "none" /\ "dir" \in AllowedKinds[p] /\ DirExists(fsys, ParentOf(p))
      [] event = "unlinkDir" ->
            fsys[p] = "dir" /\ \A c \in ChildrenOf(fsys, p) : fsys[c] = "none"

\* Something changes a path under the served root; chokidar (started with
\* ignoreInitial) detects it and will emit one event with the absolute path.
MutateUpTo(p, event, bound) ==
    /\ proc = "running"
    /\ \A v \in Viewers : Len(pending) + Len(inbox[v]) < bound
    /\ MutationPossible(fs, p, event)
    /\ fs' = [fs EXCEPT ![p] = MutationEffect(fs, p, event)]
    /\ pending' = Append(pending, [event |-> event, path |-> PathJoin(DOCS_DIR, p)])
    /\ UNCHANGED <<proc, clients, readyState, inbox, page, view, viewKind, seen>>
    /\ UNCHANGED serveVars

Mutate(p, event) == MutateUpTo(p, event, MaxInFlight)

\* The emission with a slip: the newest detected event goes first.
WatcherCallbackNewestFirst ==
    /\ proc = "running"
    /\ pending # <<>>
    /\ inbox' = Broadcast(clients, readyState, inbox,
                          pending[Len(pending)].event, pending[Len(pending)].path)
    /\ pending' = SubSeq(pending, 1, Len(pending) - 1)
    /\ UNCHANGED <<fs, proc, clients, readyState, page, view, viewKind, seen>>
    /\ UNCHANGED serveVars

\* chokidar emits the oldest detected event on 'all'; the listener runs to
\* completion.
WatcherCallback ==
    /\ proc = "running"
    /\ pending # <<>>
    /\ inbox' = Broadcast(clients, readyState, inbox,
                          Head(pending).event, Head(pending).path)
    /\ pending' = Tail(pending)
    /\ UNCHANGED <<fs, proc, clients, readyState, page, view, viewKind, seen>>
    /\ UNCHANGED serveVars

\* A viewer requests requestPath and shows the response; an HTML page starts
\* the live-reload script, which opens a socket.
Load(v, requestPath) ==
    /\ proc = "running"
    /\ page[v] \in {"none", "reloading"}
    /\ readyState[v] = "NONE"
    /\ LET res == HandleGet(fs, requestPath)
       IN  IF res.status = 200 /\ res.kind \in {"listing", "markdown"}
           THEN /\ page' = [page EXCEPT ![v] = "connecting"]
                /\ view' = [view EXCEPT ![v] = res.view]
                /\ viewKind' = [viewKind EXCEPT ![v] = res.kind]
           ELSE /\ page' = [page EXCEPT ![v] = "none"]
                /\ view' = [view EXCEPT ![v] = <<>>]
                /\ viewKind' = [viewKind EXCEPT ![v] = "none"]
    /\ seen' = [seen EXCEPT ![v] = NoPath]
    /\ UNCHANGED <<fs, pending, proc, clients, readyState, inbox>>
    /\ UNCHANGED serveVars

\* The server accepts the viewer's socket: it joins wss.clients, OPEN.
Connect(v) ==
    /\ proc = "running"
    /\ page[v] = "connecting"
    /\ readyState[v] = "NONE"
    /\ clients' = Append(clients, v)
    /\ readyState' = [readyState EXCEPT ![v] = "OPEN"]
    /\ page' = [page EXCEPT ![v] = "live"]
    /\ UNCHANGED <<fs, pending, proc, inbox, view, viewKind, seen>>
    /\ UNCHANGED serveVars

\* socket.onmessage: the page handles the oldest message sent to it, and
\* reloads (closing its socket) when the engine says so.
OnMessage(v) ==
    /\ page[v] = "live"
    /\ inbox[v] # <<>>
    /\ LET data == Head(inbox[v])
       IN  /\ seen' = [seen EXCEPT ![v] = data.path]
           /\ IF Match(view[v], data)
              THEN /\ page' = [page EXCEPT ![v] = "reloading"]
                   /\ inbox' = [inbox EXCEPT ![v] = <<>>]
                   /\ readyState' = [readyState EXCEPT ![v] = "CLOSING"]
              ELSE /\ inbox' = [inbox EXCEPT ![v] = Tail(@)]
                   /\ UNCHANGED <<page, readyState>>
    /\ UNCHANGED <<fs, pending, proc, clients, view, viewKind>>
    /\ UNCHANGED serveVars

\* The viewer's connection ends (tab closed, navigation, network drop): the
\* server-side socket starts closing, and the page has no channel any more.
Disconnect(v) ==
    /\ page[v] = "live"
    /\ page' = [page EXCEPT ![v] = "none"]
    /\ view' = [view EXCEPT ![v] = <<>>]
    /\ viewKind' = [viewKind EXCEPT ![v] = "none"]
    /\ seen' = [seen EXCEPT ![v] = NoPath]
    /\ inbox' = [inbox EXCEPT ![v] = <<>>]
    /\ readyState' = [readyState EXCEPT ![v] = "CLOSING"]
    /\ UNCHANGED <<fs, pending, proc, clients>>
    /\ UNCHANGED serveVars

\* The 'close' event with a slip: the socket stays in wss.clients.
SocketClosedKeepsMember(v) ==
    /\ readyState[v] = "CLOSING"
    /\ readyState' = [readyState EXCEPT ![v] = "NONE"]
    /\ UNCHANGED <<fs, pending, proc, clients, inbox, page, view, viewKind, seen>>
    /\ UNCHANGED serveVars

\* The socket's 'close' event: the server deletes it from wss.clients.
SocketClosed(v) ==
    /\ readyState[v] = "CLOSING"
    /\ clients' = SelectSeq(clients, LAMBDA c : c # v)
    /\ readyState' = [readyState EXCEPT ![v] = "NONE"]
    /\ UNCHANGED <<fs, pending, proc, inbox, page, view, viewKind, seen>>
    /\ UNCHANGED serveVars

\* The error codes a watcher I/O error may carry (one that chokidar drops
\* and one that it reports), and the codes chokidar drops.
ErrorCodes == {"ENOENT", "EACCES"}
SwallowedCodes == {"ENOENT", "ENOTDIR"}

\* An I/O error in the watcher.  chokidar drops ENOENT and ENOTDIR and emits
\* 'error' for the rest; the watcher has no 'error' listener, so the emit
\* throws and the process ends, dropping every socket.
WatcherError(code) ==
    /\ proc = "running"
    /\ IF code \in SwallowedCodes
       THEN UNCHANGED vars
       ELSE /\ proc' = "crashed"
            /\ pending' = <<>>
            /\ clients' = <<>>
            /\ readyState' = [v \in Viewers |-> "NONE"]
            /\ inbox' = [v \in Viewers |-> <<>>]
            /\ page' = [v \in Viewers |-> "none"]
            /\ view' = [v \in Viewers |-> <<>>]
            /\ viewKind' = [v \in Viewers |-> "none"]
            /\ seen' = [v \in Viewers |-> NoPath]
            /\ UNCHANGED <<fs, boot, req>>

\* The steps of the system, the viewers asking for the paths of requests.
NextWith(requests) ==
    \/ \E p \in DOMAIN fs, event \in WatcherEvents : Mutate(p, event)
    \/ WatcherCallback
    \/ \E v \in Viewers, requestPath \in requests : Load(v, requestPath)
    \/ \E v \in Viewers : Connect(v)
    \/ \E v \in Viewers : OnMessage(v)
    \/ \E v \in Viewers : Disconnect(v)
    \/ \E v \in Viewers : SocketClosed(v)
    \/ \E code \in ErrorCodes : WatcherError(code)

Next == NextWith(RequestPaths(Universe))

Spec == Init /\ [][Next]_vars

\* The fan-out among several viewers, which look at the root listing or at
\* the file "g/g.md".
FanRequests == {<<"/">>, <<"/">> \o PathG_GMd}
FanNext == NextWith(FanRequests)

FanSpec == FanInit /\ [][FanNext]_vars

\* Two viewers of the file "g/g.md", with up to MaxQueued events detected and
\* not yet handled by a viewer, so that messages queue up behind one another.
TwoViewers == {1, 2}
OrderInit == InitWith(TwoViewers, FanUniverse)
OrderRequests == {<<"/">> \o PathG_GMd}

OrderNext ==
    \/ \E p \in DOMAIN fs, event \in WatcherEvents : MutateUpTo(p, event, MaxQueued)
    \/ WatcherCallback
    \/ \E v \in Viewers, requestPath \in OrderRequests : Load(v, requestPath)
    \/ \E v \in Viewers : Connect(v)
    \/ \E v \in Viewers : OnMessage(v)
    \/ \E v \in Viewers : Disconnect(v)
    \/ \E v \in Viewers : SocketClosed(v)
    \/ \E code \in ErrorCodes : WatcherError(code)

OrderSpec == OrderInit /\ [][OrderNext]_vars

\* The browser's event loop runs socket.onmessage on every message that has
\* arrived at a page whose socket is open.
LiveSpec == Spec /\ \A v \in OneViewer : WF_vars(OnMessage(v))

(***************************************************************************)
(* The process from its start, serving requests one await at a time while  *)
(* the tree changes.                                                       *)
(***************************************************************************)
\* The tree at startup: directory "g" and file "g.md".
ServeInitialFs ==
    [p \in ServeUniverse |-> IF p = PathG THEN "dir"
                             ELSE IF p = PathGMd THEN "file" ELSE "none"]

\* The process starts with some command line, the directories of some disk
\* existing.
ServeInit ==
    /\ fs = ServeInitialFs
    /\ pending = <<>>
    /\ proc = "starting"
    /\ clients = <<>>
    /\ readyState = [v \in OneViewer |-> "NONE"]
    /\ inbox = [v \in OneViewer |-> <<>>]
    /\ page = [v \in OneViewer |-> "none"]
    /\ view = [v \in OneViewer |-> <<>>]
    /\ viewKind = [v \in OneViewer |-> "none"]
    /\ seen = [v \in OneViewer |-> NoPath]
    /\ \E args \in ArgLists, disk \in Disks : boot = BootStart(args, disk)
    /\ req = IdleReq

\* Lines 360-381: the command line gives DOCS_DIR.
ParseArgs ==
    /\ proc = "starting" /\ boot.pc = "args"
    /\ boot' = [boot EXCEPT !.pc = "check",
                            !.docsDir = ResolveDocsDir(ParseDirArg(boot.args, 1, <<>>))]
    /\ UNCHANGED <<fs, proc, req, channelVars>>

\* Lines 383-386: exit with status 1 when DOCS_DIR does not exist.
CheckDir ==
    /\ proc = "starting" /\ boot.pc = "check"
    /\ IF DirMissing(boot.disk, boot.docsDir)
       THEN /\ proc' = "exited"
            /\ boot' = [boot EXCEPT !.pc = "exited", !.exitCode = 1]
       ELSE /\ boot' = [boot EXCEPT !.pc = "server"]
            /\ UNCHANGED proc
    /\ UNCHANGED <<fs, req, channelVars>>

\* Lines 388-393: the HTTP server and the WebSocket server on it.
CreateServer ==
    /\ proc = "starting" /\ boot.pc = "server"
    /\ boot' = [boot EXCEPT !.pc = "watch", !.wss = TRUE]
    /\ UNCHANGED <<fs, proc, req, channelVars>>

\* Lines 396-417: the watcher on DOCS_DIR.
StartWatcher ==
    /\ proc = "starting" /\ boot.pc = "watch"
    /\ boot' = [boot EXCEPT !.pc = "listen", !.watching = TRUE,
                            !.scan = "scanning"]
    /\ UNCHANGED <<fs, proc, req, channelVars>>

\* Lines 680-683: the server listens; requests and connections are accepted
\* from now on.
Listen ==
    /\ proc = "starting" /\ boot.pc = "listen"
    /\ boot' = [BootUp EXCEPT !.scan = boot.scan]
    /\ proc' = "running"
    /\ UNCHANGED <<fs, req, channelVars>>

\* The earlier revision's watcher options: ignoreInitial not set.
IgnoreInitialUnset == FALSE

\* Line 397: ignoreInitial: true
IgnoreInitial == TRUE

\* The events of an initial scan that reports what it finds: addDir or add
\* for every path that exists, a directory before what it holds.
RECURSIVE ScanEvents(_, _)
ScanEvents(fsys, paths) ==
    IF paths = {} THEN <<>>
    ELSE LET p == CHOOSE q \in paths : \A q2 \in paths : Len(q) <= Len(q2)
         IN  <<[event |-> IF fsys[p] = "dir" THEN "addDir" ELSE "add",
                path |-> PathJoin(DOCS_DIR, p)]>>
             \o ScanEvents(fsys, paths \ {p})

\* The watcher finishes its initial scan, after the startup code has run to
\* its end; with ignoreInitial it reports nothing of what it found.
ScanDone ==
    /\ proc = "running" /\ boot.scan = "scanning"
    /\ boot' = [boot EXCEPT !.scan = "ready"]
    /\ pending' = IF IgnoreInitial THEN pending
                  ELSE pending \o ScanEvents(fs, {p \in DOMAIN fs : fs[p] # "none"})
    /\ UNCHANGED <<fs, proc, req, clients, readyState, inbox, page, view,
                   viewKind, seen>>

\* A GET request arrives: lines 586-594, up to the first await.
Request(raw) ==
    /\ proc = "running" /\ boot.listening
    /\ req.pc \in {"idle", "finished"}
    /\ LET requestPath == DecodeURIComponent(raw)
           r0 == [IdleReq EXCEPT !.raw = raw, !.requestPath = requestPath]
       IN  IF requestPath = URIError
           THEN \E outcome \in ThrowOutcomes : req' = Thrown(r0, outcome)
           ELSE IF IsTraversal(requestPath)
           THEN req' = Finish(r0, 403, "text", <<>>, {})
           ELSE req' = [r0 EXCEPT !.pc = "stat",
                                  !.filePath = PathJoin(DOCS_DIR, requestPath)]
    /\ UNCHANGED <<fs, proc, boot, channelVars>>

\* Lines 594-608: stats = await getStats(filePath).
StatDone ==
    /\ req.pc = "stat"
    /\ LET stats == getStats(fs, req.filePath)
           r1 == [req EXCEPT !.stats = stats, !.io = @ \cup {req.filePath}]
       IN  IF stats = "none" /\ ~EndsWith(req.filePath, DotMd)
           THEN req' = [r1 EXCEPT !.pc = "statMd"]
           ELSE req' = Dispatch(r1)
    /\ UNCHANGED <<fs, proc, boot, channelVars>>

\* Lines 598-608: mdStats = await getStats(mdPath).
StatMdDone ==
    /\ req.pc = "statMd"
    /\ LET mdPath == req.filePath \o DotMd
           mdStats == getStats(fs, mdPath)
           r1 == [req EXCEPT !.io = @ \cup {mdPath}]
       IN  IF mdStats # "none"
           THEN req' = Dispatch([r1 EXCEPT !.filePath = mdPath, !.stats = mdStats])
           ELSE req' = Dispatch(r1)
    /\ UNCHANGED <<fs, proc, boot, channelVars>>

\* Line 611: files = await fs.promises.readdir(filePath); it throws when
\* filePath is no directory any more.
ReaddirDone ==
    /\ req.pc = "readdir"
    /\ LET r1 == [req EXCEPT !.io = @ \cup {req.filePath}]
       IN  IF getStats(fs, req.filePath) = "dir"
           THEN req' = [r1 EXCEPT !.pc = "statIndex",
                                  !.files = Readdir(fs, PathRelative(DOCS_DIR,
                                                                     req.filePath))]
           ELSE \E outcome \in ThrowOutcomes : req' = Thrown(r1, outcome)
    /\ UNCHANGED <<fs, proc, boot, channelVars>>

\* Lines 614-617 and, without an index file, 632-656.
StatIndexDone ==
    /\ req.pc = "statIndex"
    /\ LET indexPath == PathJoin(req.filePath, NameIndexMd)
           r1 == [req EXCEPT !.io = @ \cup {indexPath}]
       IN  IF getStats(fs, indexPath) = "file"
           THEN req' = [r1 EXCEPT !.pc = "readIndex"]
           ELSE req' = FinishListing(r1, {})
    /\ UNCHANGED <<fs, proc, boot, channelVars>>

\* Lines 618-656: raw = await fs.promises.readFile(indexPath); it throws when
\* the index file is gone.
ReadIndexDone ==
    /\ req.pc = "readIndex"
    /\ LET indexPath == PathJoin(req.filePath, NameIndexMd)
       IN  IF getStats(fs, indexPath) = "file"
           THEN req' = FinishListing(req, {indexPath})
           ELSE \E outcome \in ThrowOutcomes : req' = Thrown(req, outcome)
    /\ UNCHANGED <<fs, proc, boot, channelVars>>

\* Lines 661-664: content = await fs.promises.readFile(filePath); it throws
\* when filePath is no file any more.
ReadFileDone ==
    /\ req.pc = "readFile"
    /\ IF getStats(fs, req.filePath) = "file"
       THEN req' = Finish(req, 200, "markdown",
                          PathRelative(DOCS_DIR, req.filePath), {req.filePath})
       ELSE \E outcome \in ThrowOutcomes : req' = Thrown(req, outcome)
    /\ UNCHANGED <<fs, proc, boot, channelVars>>

\* Line 673: res.sendFile(filePath) sends the file, or 404 when it is gone.
SendFileDone ==
    /\ req.pc = "sendFile"
    /\ IF getStats(fs, req.filePath) = "file"
       THEN req' = Finish(req, 200, "image", <<>>, {req.filePath})
       ELSE req' = Finish(req, 404, "text", <<>>, {})
    /\ UNCHANGED <<fs, proc, boot, channelVars>>

\* Something creates a path of the tree (in an existing directory) or
\* removes one (a directory when it is empty).
FsChange(p, kind) ==
    /\ proc = "running"
    /\ IF kind = "none"
       THEN fs[p] # "none" /\ \A c \in ChildrenOf(fs, p) : fs[c] = "none"
       ELSE fs[p] = "none" /\ kind \in ServeKinds[p] /\ DirExists(fs, ParentOf(p))
    /\ fs' = [fs EXCEPT ![p] = kind]
    /\ req' = [req EXCEPT !.raced = @ \/ req.pc # "idle"]
    /\ UNCHANGED <<proc, boot, channelVars>>

FsKinds == {"none", "file", "dir", "other"}

ServeNext ==
    \/ ParseArgs
    \/ CheckDir
    \/ CreateServer
    \/ StartWatcher
    \/ Listen
    \/ ScanDone
    \/ \E raw \in ServeRequests : Request(raw)
    \/ StatDone
    \/ StatMdDone
    \/ ReaddirDone
    \/ StatIndexDone
    \/ ReadIndexDone
    \/ ReadFileDone
    \/ SendFileDone
    \/ \E p \in ServeUniverse, kind \in FsKinds : FsChange(p, kind)

ServeSpec == ServeInit /\ [][ServeNext]_vars

\* The process from its start with the watcher, the channel and one viewer,
\* on the tree "g", "g/g.md".
StartInit ==
    /\ fs = InitialFs(FanUniverse)
    /\ pending = <<>>
    /\ proc = "starting"
    /\ clients = <<>>
    /\ readyState = [v \in OneViewer |-> "NONE"]
    /\ inbox = [v \in OneViewer |-> <<>>]
    /\ page = [v \in OneViewer |-> "none"]
    /\ view = [v \in OneViewer |-> <<>>]
    /\ viewKind = [v \in OneViewer |-> "none"]
    /\ seen = [v \in OneViewer |-> NoPath]
    /\ \E args \in ArgLists, disk \in Disks : boot = BootStart(args, disk)
    /\ req = IdleReq

StartNext ==
    \/ ParseArgs
    \/ CheckDir
    \/ CreateServer
    \/ StartWatcher
    \/ Listen
    \/ ScanDone
    \/ \E p \in DOMAIN fs, event \in WatcherEvents : Mutate(p, event)
    \/ WatcherCallback
    \/ \E v \in Viewers, requestPath \in FanRequests : Load(v, requestPath)
    \/ \E v \in Viewers : Connect(v)
    \/ \E v \in Viewers : OnMessage(v)
    \/ \E v \in Viewers : Disconnect(v)
    \/ \E v \in Viewers : SocketClosed(v)
    \/ \E code \in ErrorCodes : WatcherError(code)

StartSpec == StartInit /\ [][StartNext]_vars

(***************************************************************************)
(* Properties of the view-match engine.                                    *)
(*                                                                         *)
(* A viewer has Handled a message when its page has run socket.onmessage   *)
(* on it: seen is the message's path C, view the page's identifier V, and  *)
(* the page is "reloading" exactly when the engine decided to reload.      *)
(***************************************************************************)
Handled(v) == page[v] \in {"live", "reloading"} /\ seen[v] # NoPath

Reloaded(v) == page[v] = "reloading"

HasSlash(C) == \E i \in 1..Len(C) : C[i] = "/"

\* C names something below the directory V: it starts with V + "/".
Below(V, C) == StartsWith(C, V \o <<"/">>)

C2_DescendantReloads ==
    \A v \in Viewers :
        (Handled(v) /\ viewKind[v] = "listing" /\ view[v] # <<>>
            /\ Below(view[v], seen[v]))
        => Reloaded(v)

\* C3: a viewer whose view identifier V equals the changed path C reloads.
C3_ExactMatchReloads ==
    \A v \in Viewers : (Handled(v) /\ seen[v] = view[v]) => Reloaded(v)

\* A markdown-file viewer has reloaded on a change of its own file.
C3_Witness ==
    \E v \in Viewers :
        /\ Handled(v) /\ Reloaded(v)
        /\ viewKind[v] = "markdown" /\ seen[v] = view[v] /\ view[v] = PathG_GMd

\* C4: a viewer of a rendered markdown file V does not reload on any changed
\* path C other than V.
C4_FileViewNoContainment ==
    \A v \in Viewers :
        (Handled(v) /\ viewKind[v] = "markdown" /\ seen[v] # view[v])
        => ~Reloaded(v)

\* A markdown-file viewer has handled a change of a sibling in its directory
\* and stays on its page.
C4_Witness ==
    \E v \in Viewers :
        /\ Handled(v) /\ ~Reloaded(v) /\ viewKind[v] = "markdown"
        /\ seen[v] # view[v] /\ HasSlash(view[v])
        /\ ParentOf(seen[v]) = ParentOf(view[v])

\* C5: the containment rule applies to every directory-listing view, whatever
\* the directory's name: a viewer of a listing reloads on C exactly when C is
\* V or lies below V (everything lies below the root).
C5_ContainmentForEveryListing ==
    \A v \in Viewers :
        (Handled(v) /\ viewKind[v] = "listing")
        => (Reloaded(v) <=>
               (seen[v] = view[v] \/ view[v] = <<>> \/ Below(view[v], seen[v])))

\* C6: a viewer of a non-root directory listing V does not reload on a C that
\* is neither V nor starts with V + "/".
C6_OutsideSubtreeNoReload ==
    \A v \in Viewers :
        (Handled(v) /\ viewKind[v] = "listing" /\ view[v] # <<>>
            /\ seen[v] # view[v] /\ ~Below(view[v], seen[v]))
        => ~Reloaded(v)

\* A viewer of the listing of "g" has handled a change of "g.md/g.md", whose
\* name starts with "g" but which is not below "g", and stays on its page.
C6_Witness ==
    \E v \in Viewers :
        /\ Handled(v) /\ ~Reloaded(v) /\ viewKind[v] = "listing"
        /\ view[v] = PathG /\ seen[v] = PathGMd_GMd

(***************************************************************************)
(* Properties of the watcher callback and of the fan-out.                  *)
(***************************************************************************)
\* A step in which the 'all' listener runs on the oldest detected event.
CallbackStep ==
    /\ proc = "running" /\ proc' = "running"
    /\ pending # <<>> /\ pending' = Tail(pending)

InLiveSet(v) == \E i \in 1..Len(clients) : clients[i] = v

\* C7: when the listener broadcasts an event, every viewer connection that is
\* in wss.clients and OPEN at that moment is sent exactly one update message
\* for that event, whatever the state of the other connections; every other
\* connection is sent nothing.
C7_FanOutDelivery ==
    [][CallbackStep =>
        \A v \in Viewers :
            IF InLiveSet(v) /\ readyState[v] = "OPEN"
            THEN /\ Len(inbox'[v]) = Len(inbox[v]) + 1
                 /\ SubSeq(inbox'[v], 1, Len(inbox[v])) = inbox[v]
                 /\ inbox'[v][Len(inbox'[v])].type = "update"
                 /\ inbox'[v][Len(inbox'[v])].event = Head(pending).event
            ELSE inbox'[v] = inbox[v]]_vars

\* A viewer w, earlier in wss.clients than an OPEN viewer v, is CLOSING since
\* it reloaded on the path seen[w], and v has been sent a message for another
\* path: with at most one event in flight that message was fanned out after w
\* started closing, so the fan-out skipped w and still reached v.
C7_Witness ==
    \E v \in Viewers, w \in Viewers :
        /\ \E i \in 1..Len(clients), j \in 1..Len(clients) :
               i < j /\ clients[i] = w /\ clients[j] = v
        /\ readyState[w] = "CLOSING" /\ page[w] = "reloading"
        /\ readyState[v] = "OPEN" /\ inbox[v] # <<>>
        /\ Head(inbox[v]).path # seen[w]

\* C11: no queuing and no retry.  A message reaches a viewer only in the step
\* in which the listener fans out an event, only if the viewer's connection is
\* in wss.clients and OPEN in that step, and then exactly one message for that
\* event; the event leaves the server in that step.  A connection that is not
\* OPEN has nothing waiting for it, also in the step in which it opens.
C11_NoQueueNoRetry ==
    [][\A v \in Viewers :
           /\ Len(inbox'[v]) > Len(inbox[v]) =>
                  /\ CallbackStep
                  /\ InLiveSet(v) /\ readyState[v] = "OPEN"
                  /\ inbox'[v] = Append(inbox[v],
                         UpdateMsg(PathRelative(DOCS_DIR, Head(pending).path),
                                   Head(pending).event))
           /\ readyState[v] # "OPEN" => (inbox[v] = <<>> /\ inbox'[v] = <<>>)]_vars

\* The removal of "g/g.md" has been fanned out (v holds its message) and w,
\* whose page shows "g/g.md", is OPEN with nothing sent to it: w loaded the
\* page before the removal and opened its connection after the fan-out.
C11_Witness ==
    \E v \in Viewers, w \in Viewers :
        /\ v # w /\ pending = <<>>
        /\ inbox[v] = <<UpdateMsg(PathG_GMd, "unlink")>>
        /\ page[w] = "live" /\ readyState[w] = "OPEN" /\ InLiveSet(w)
        /\ view[w] = PathG_GMd /\ inbox[w] = <<>> /\ seen[w] = NoPath

C9_WatcherErrorNotFatal == proc = "running"

\* C10: a viewer of a directory listing whose connection is OPEN when a change
\* below that directory is broadcast to it eventually reloads, unless its
\* connection closes; and it never reloads on a change outside the directory.
C10_EndToEndReload ==
    /\ \A v \in OneViewer :
           (/\ page[v] = "live" /\ viewKind[v] = "listing"
            /\ inbox[v] # <<>>
            /\ (view[v] = <<>> \/ Below(view[v], Head(inbox[v]).path)))
           ~> (Reloaded(v) \/ readyState[v] # "OPEN")
    /\ [](\A v \in OneViewer :
             (Handled(v) /\ viewKind[v] = "listing" /\ view[v] # <<>>
                  /\ seen[v] # view[v] /\ ~Below(view[v], seen[v]))
             => ~Reloaded(v))

\* C18: wss.clients holds, once each, exactly the viewer connections that
\* have opened and not yet closed; a step that is no fan-out sends nothing;
\* a fan-out sends nothing outside wss.clients and sends the event exactly
\* once to every OPEN member, whatever the others are doing; and a connection
\* that opens or closes leaves the other members, their order and what was
\* sent to them as they are (in a process that keeps running).
C18_LiveSetAndFanOut ==
    /\ [](\A v \in Viewers : InLiveSet(v) <=> readyState[v] # "NONE")
    /\ [](\A i \in 1..Len(clients), j \in 1..Len(clients) :
             clients[i] = clients[j] => i = j)
    /\ [][/\ CallbackStep =>
                \A v \in Viewers :
                    /\ ~InLiveSet(v) => inbox'[v] = inbox[v]
                    /\ (InLiveSet(v) /\ readyState[v] = "OPEN") =>
                           (Len(inbox'[v]) = Len(inbox[v]) + 1
                                /\ clients' = clients)
          /\ \A w \in Viewers :
                 (proc' = "running" /\ InLiveSet(w)' # InLiveSet(w)) =>
                     /\ \A v \in Viewers \ {w} :
                            inbox'[v] = inbox[v] /\ readyState'[v] = readyState[v]
                     /\ SelectSeq(clients', LAMBDA c : c # w)
                            = SelectSeq(clients, LAMBDA c : c # w)]_vars

\* A viewer w has reloaded and its connection has closed and left wss.clients,
\* while v, still OPEN, holds the message of a later event: the removal of w
\* and the fan-out to v did not disturb each other.
C18_Witness ==
    \E v \in Viewers, w \in Viewers :
        /\ v # w /\ page[w] = "reloading" /\ readyState[w] = "NONE" /\ ~InLiveSet(w)
        /\ InLiveSet(v) /\ readyState[v] = "OPEN" /\ page[v] = "live"
        /\ Len(inbox[v]) = 1 /\ Head(inbox[v]).path # seen[w]
        /\ clients = <<v>>

\* The events of a sequence of messages or detected events that are about
\* the path p (relative for a message, absolute for a detected event).
EventsOn(p, msgs) ==
    LET on == SelectSeq(msgs, LAMBDA m : m.path = p \/ m.path = PathJoin(DOCS_DIR, p))
    IN  [i \in 1..Len(on) |-> on[i].event]

\* Whether the watcher can report event e2 on a path right after e1.
MayFollow(e1, e2) ==
    CASE e1 \in {"add", "change"} -> e2 \in {"change", "unlink"}
      [] e1 \in {"unlink", "unlinkDir"} -> e2 \in {"add", "addDir"}
      [] e1 = "addDir" -> e2 = "unlinkDir"

\* Whether the path is of this kind right after event e on it.
LeavesKind(e, kind) ==
    CASE e \in {"add", "change"} -> kind = "file"
      [] e \in {"unlink", "unlinkDir"} -> kind = "none"
      [] e = "addDir" -> kind = "dir"

IsSuffix(s, t) == Len(s) <= Len(t) /\ SubSeq(t, Len(t) - Len(s) + 1, Len(t)) = s

\* C20: the messages waiting at a viewer, followed by the events detected and
\* not yet fanned out, are for every path in the order in which its mutations
\* happened (each event may follow the one before it, and the last one leaves
\* the path as it is now); and since a fan-out completes before the next one
\* begins, of any two viewers one holds a tail end of what the other holds.
C20_PerPathOrder ==
    /\ \A v \in Viewers, p \in DOMAIN fs :
           LET es == EventsOn(p, inbox[v] \o pending)
           IN  /\ \A i \in 1..(Len(es) - 1) : MayFollow(es[i], es[i + 1])
               /\ es # <<>> => LeavesKind(es[Len(es)], fs[p])
    /\ \A v \in Viewers, w \in Viewers :
           IsSuffix(inbox[v], inbox[w]) \/ IsSuffix(inbox[w], inbox[v])

\* A viewer holds the messages of two events on "g/g.md", a change and then
\* the removal, and another viewer, which joined in between, only the second.
C20_Witness ==
    \E v \in Viewers, w \in Viewers :
        /\ inbox[v] = <<UpdateMsg(PathG_GMd, "change"), UpdateMsg(PathG_GMd, "unlink")>>
        /\ inbox[w] = <<UpdateMsg(PathG_GMd, "unlink")>>
        /\ page[v] = "live" /\ page[w] = "live"

\* C23: the decision of a page on a message depends on its view identifier
\* V and the message's path C only: two viewers with equal V that handled a
\* message with the same C decided alike, whatever the events were and
\* whatever happened before; the decision is the one the engine gives for V
\* and C with any event kind; and handling a message leaves V as it is.
C23_MatchDeterminism ==
    /\ [](\A v \in Viewers, w \in Viewers :
             (Handled(v) /\ Handled(w) /\ view[v] = view[w] /\ seen[v] = seen[w])
             => (Reloaded(v) <=> Reloaded(w)))
    /\ [](\A v \in Viewers, e \in WatcherEvents :
             Handled(v) => (Reloaded(v) <=> Match(view[v], UpdateMsg(seen[v], e))))
    /\ [][\A v \in Viewers :
             (page[v] = "live" /\ seen'[v] # seen[v] /\ page'[v] # "none")
             => (view'[v] = view[v] /\ viewKind'[v] = viewKind[v])]_vars

\* Two viewers of the file "g/g.md" have both handled a message about the
\* directory "g" and both stay on their page.
C23_Witness ==
    \E v \in Viewers, w \in Viewers :
        /\ v # w /\ Handled(v) /\ Handled(w)
        /\ view[v] = PathG_GMd /\ view[w] = PathG_GMd
        /\ seen[v] = PathG /\ seen[w] = PathG
        /\ ~Reloaded(v) /\ ~Reloaded(w)

(***************************************************************************)
(* Properties of the request handler.                                      *)
(***************************************************************************)
\* The handler has returned or thrown on a request whose path it decoded.
Finished == req.pc = "finished" /\ req.requestPath # URIError

\* One of the '/'-separated segments of P is "..".
HasDotDotSegment(P) ==
    LET segs == Split(P, "/") IN \E i \in 1..Len(segs) : segs[i] = DotDot

\* root + P, the candidate of the resolver.
Candidate == PathJoin(DOCS_DIR, req.requestPath)

\* A name whose content may be served: "*.md" or an image.
ServableName(f) == EndsWith(f, DotMd) \/ EndsWith(f, <<".", "p", "n", "g">>)

\* C12: a request whose decoded path has a ".." segment is answered 403, and
\* the handler makes no file-system call and sends no file content for it.
C12_TraversalRejected ==
    (req.pc # "idle" /\ req.requestPath # URIError
        /\ HasDotDotSegment(req.requestPath))
    => /\ req.pc = "finished" /\ req.sent = 1 /\ req.status = 403
       /\ req.io = {} /\ req.content = {} /\ req.filePath = NoTarget

\* The request "/%2e%2e/g.md", which decodes to "/../g.md", has been answered
\* 403 while "g.md" exists.
C12_Witness ==
    /\ Finished /\ req.raw = <<"/", "%", "2", "e", "%", "2", "e", "/">> \o PathGMd
    /\ req.requestPath = <<"/", ".", ".", "/">> \o PathGMd
    /\ req.status = 403 /\ req.io = {} /\ fs[PathGMd] = "file"

\* C13: a request path without a ".." segment is never rejected as a
\* traversal attempt, and when root + P exists it is the resolved target.
C13_RejectOnlyOnSegment ==
    (Finished /\ ~HasDotDotSegment(req.requestPath))
    => /\ req.filePath # NoTarget
       /\ (~req.raced /\ getStats(fs, Candidate) # "none")
              => req.filePath = Candidate

\* C14: when the handler has finished, exactly one response has been sent,
\* with status 200 (markdown, listing or image), 403 or 404.
C14_ExactlyOneResponse ==
    req.pc = "finished"
    => /\ req.sent = 1
       /\ req.status \in {200, 403, 404}
       /\ req.status = 200 => req.kind \in {"markdown", "listing", "image"}

\* C15: for a request path P without a ".." segment, the tree being as it was
\* when the request arrived: (a) root + P is the target when it exists; (b) otherwise,
\* when root + P does not end in ".md" and root + P + ".md" exists, that is the
\* target and the view identifier of its page is its relative path, ".md"
\* included; (c) otherwise the answer is 404, and root + P + ".md" is not
\* looked at when root + P ends in ".md".
C15_FallbackOrder ==
    (Finished /\ ~HasDotDotSegment(req.requestPath) /\ ~req.raced)
    => LET md == Candidate \o DotMd
       IN  IF getStats(fs, Candidate) # "none"
           THEN req.filePath = Candidate
           ELSE IF ~EndsWith(Candidate, DotMd) /\ getStats(fs, md) # "none"
           THEN /\ req.filePath = md
                /\ req.kind \in {"markdown", "listing"} =>
                       (req.view = PathRelative(DOCS_DIR, md)
                            /\ EndsWith(req.view, DotMd))
           ELSE /\ req.status = 404
                /\ EndsWith(Candidate, DotMd) => md \notin req.io

\* C16: the content a response carries is that of files named "*.md" or of
\* images, and a request that resolves to any other regular file is answered
\* 403 with no content.
C16_FileKindGating ==
    req.pc = "finished"
    => /\ \A f \in req.content : ServableName(f)
       /\ (req.stats = "file" /\ ~ServableName(req.filePath))
              => (req.status = 403 /\ req.sent = 1 /\ req.content = {})

\* The request "/g" has been answered 403 while "g" is a regular file.
C16_Witness ==
    /\ Finished /\ req.raw = <<"/">> \o PathG /\ req.stats = "file"
    /\ req.filePath = DOCS_DIR \o <<"/">> \o PathG
    /\ req.status = 403 /\ req.content = {} /\ fs[PathG] = "file"

\* C17: the view identifier of every HTML page answered with 200 is the
\* target's path relative to the served root: its segments joined by '/',
\* with no leading and no trailing slash and no ".." segment, and empty
\* exactly when the target is the served root.
C17_ViewIdCanonical ==
    (req.pc = "finished" /\ req.status = 200
        /\ req.kind \in {"listing", "markdown"})
    => LET V == req.view
           target == Segments(req.filePath)
           root == Segments(DOCS_DIR)
       IN  /\ ~StartsWith(V, <<"/">>) /\ ~EndsWith(V, <<"/">>)
           /\ ~HasDotDotSegment(V)
           /\ V = Join(Segments(V), "/")
           /\ StartsWith(target, root)
           /\ Segments(V) = SubSeq(target, Len(root) + 1, Len(target))
           /\ V = <<>> <=> target = root

\* The request "/g/" has been answered with the listing of "g", whose view
\* identifier is "g".
C17_Witness ==
    /\ Finished /\ req.raw = <<"/">> \o PathG \o <<"/">>
    /\ req.status = 200 /\ req.kind = "listing" /\ req.view = PathG

\* The handler has answered with the listing of a directory.
ListingSent == req.pc = "finished" /\ req.status = 200 /\ req.kind = "listing"

\* C21: the entries of a listing are the immediate children of the listed
\* directory that are directories (href name + "/") or whose name ends in
\* ".md" (href name); no other child and no deeper descendant is listed.
C21_ListingFilter ==
    (ListingSent /\ ~req.raced)
    => req.entries =
           {PathBasename(c) \o (IF fs[c] = "dir" THEN <<"/">> ELSE <<>>) :
               c \in {c \in DOMAIN fs :
                         /\ fs[c] # "none" /\ ParentOf(c) = req.view
                         /\ fs[c] = "dir" \/ EndsWith(c, DotMd)}}

\* The listing of the root holding directory "g" with "g/index.md" in it,
\* file "g.md" and image "g.png" lists "g/" and "g.md" only.
C21_Witness ==
    /\ ListingSent /\ ~req.raced /\ req.view = <<>>
    /\ fs[PathG] = "dir" /\ fs[PathGMd] = "file" /\ fs[NameGPng] = "file"
    /\ fs[PathG_IndexMd] = "file" /\ fs[NameGDotDotMd] = "none"
    /\ req.entries = {PathG \o <<"/">>, PathGMd}

\* C22: a listing has the parent entry ".." if and only if the listed
\* directory is not the served root.
C22_ParentEntryIffNotRoot ==
    ListingSent => (req.parent <=> req.view # <<>>)

(***************************************************************************)
(* Properties of the startup.                                              *)
(***************************************************************************)
\* C19: when the served root the command line gives does not exist, the
\* process has exited with a non-zero status once the check has run, with no
\* WebSocket server, no watcher and no listening server, and no request is
\* served.
C19_StartupConfigError ==
    (boot.pc \notin {"args", "check"} /\ boot.docsDir \notin boot.disk)
    => /\ proc = "exited" /\ boot.pc = "exited" /\ boot.exitCode > 0
       /\ ~boot.wss /\ ~boot.watching /\ ~boot.listening
       /\ req = IdleReq /\ clients = <<>>

\* The process started with "-d x" has exited with status 1: "x" does not
\* exist, though the bundled docs directory does.
C19_Witness ==
    /\ proc = "exited" /\ boot.exitCode = 1
    /\ boot.args = << <<"-", "d">>, <<"x">> >>
    /\ boot.docsDir = <<"/", "x">>
    /\ ResolveDocsDir(<<>>) \in boot.disk

\* C24: the watcher is started before the server listens, so every viewer
\* connection finds it running; the end of the initial scan reports nothing;
\* and every event the watcher detects is that of a mutation made in the same
\* step, never the discovery of something that was already there.
C24_StartupSuppression ==
    /\ [](boot.listening => (boot.watching /\ boot.scan # "off"))
    /\ [](\A v \in Viewers :
             (InLiveSet(v) \/ readyState[v] # "NONE" \/ page[v] # "none")
             => (boot.watching /\ boot.scan # "off"))
    /\ [][boot.scan' # boot.scan => (pending' = pending /\ inbox' = inbox)]_vars
    /\ [][Len(pending') > Len(pending) =>
             /\ proc = "running" /\ boot.watching
             /\ \E p \in DOMAIN fs, e \in WatcherEvents :
                    /\ MutationPossible(fs, p, e)
                    /\ fs' = [fs EXCEPT ![p] = MutationEffect(fs, p, e)]
                    /\ pending' = Append(pending,
                           [event |-> e, path |-> PathJoin(DOCS_DIR, p)])]_vars

\* The initial scan is over, a viewer is connected, and nothing has been
\* detected or sent although "g" and "g/g.md" were there from the start.
C24_Witness ==
    \E v \in Viewers :
        /\ boot.scan = "ready" /\ proc = "running"
        /\ page[v] = "live" /\ readyState[v] = "OPEN" /\ InLiveSet(v)
        /\ inbox[v] = <<>> /\ seen[v] = NoPath /\ pending = <<>>
        /\ fs = InitialFs(FanUniverse)

====
